---- MODULE Spec2Model ----
(***************************************************************************)
(* Model of controllers/nginx/pkg/cmd/controller/nginx.go: the NGINX       *)
(* ingress controller's synchronization cycle (OnUpdate -> testTemplate -> *)
(* Reload -> isReloadRequired), the sizing arithmetic (nextPowerOf2), the  *)
(* template reload callback (onChange) and the goroutine running nginx     *)
(* (Start).                                                                *)
(*                                                                         *)
(* Byte sequences are sequences of naturals.  A file is a record           *)
(* [exists, data].  Every external operation that can fail (open, read,    *)
(* temporary files, writes, the diff tool, the reload signal, the syntax   *)
(* checker) takes its outcome from an environment record chosen            *)
(* nondeterministically at each call.                                      *)
(***************************************************************************)
EXTENDS Integers, Sequences, FiniteSets, TLC

VARIABLES cfgFile,   \* content of cfgPath, the committed configuration
          pc,        \* position of the sync loop: "idle" or "reload"
          desired,   \* desired state handed to the current / last OnUpdate
          pending,   \* bytes OnUpdate returned, not yet handed to Reload
          last,      \* observation record of the current / last cycle
          synced,    \* bytes of the last fully successful cycle, <<>> if none
          stale,     \* cfgPath was rewritten and nginx has not reloaded it yet
          nWrites,   \* successful writes of cfgPath so far
          nSignals,  \* reload signals issued so far
          v,         \* an argument for nextPowerOf2
          sizingIn,  \* a server list and base options for the sizing code
          sizingOut, \* what the sizing code computed from them, <<>> before
          tmpl,      \* the templates: n.t of the closure and of the returned
                     \* controller, the closed ones, onChange's position
          proc       \* the goroutine running Start and the nginx process

vars == <<cfgFile, pc, desired, pending, last, synced, stale,
          nWrites, nSignals, v, sizingIn, sizingOut, tmpl, proc>>

-----------------------------------------------------------------------------
(* Bounds *)

MaxServers == 1         \* servers per desired state in a cycle
MaxWrites == 2          \* writes of cfgPath after which no new cycle starts
MaxSizingServers == 3   \* servers per list given to the sizing code alone
MaxNegV == 12           \* nextPowerOf2 is given arguments -MaxNegV..MaxV
MaxV == 40
MaxLoads == 3           \* calls of NewTemplate made by onChange
MaxStarts == 2          \* calls of cmd.Start after which none is modelled

-----------------------------------------------------------------------------
(* Generic helpers *)

Max(a, b) == IF a >= b THEN a ELSE b

RECURSIVE Pow2(_)
Pow2(k) == IF k = 0 THEN 1 ELSE 2 * Pow2(k - 1)

RECURSIVE SeqsUpTo(_, _)
SeqsUpTo(S, n) ==
    IF n = 0 THEN {<<>>}
    ELSE LET shorter == SeqsUpTo(S, n - 1)
         IN shorter \cup {Append(s, e) : s \in shorter, e \in S}

Prefixes(s) == {SubSeq(s, 1, k) : k \in 0..(Len(s) - 1)}

NoFile == [exists |-> FALSE, data |-> <<>>]
FileOf(bytes) == [exists |-> TRUE, data |-> bytes]

-----------------------------------------------------------------------------
(* nextPowerOf2, nginx.go:261-271.  Go's int is a two's complement integer; *)
(* >> on a negative int is an arithmetic shift, which is floor division by  *)
(* a power of two, and | is the bitwise or of the two's complement forms.   *)
(* Both are computed here on unbounded integers, which agrees with the      *)
(* 64-bit result as long as nothing overflows (|v| is far below 2^31).      *)

\* a | b
BitOr[a \in Int, b \in Int] ==
    IF a = 0 THEN b
    ELSE IF b = 0 THEN a
    ELSE IF a = -1 \/ b = -1 THEN -1
    ELSE 2 * BitOr[a \div 2, b \div 2] + Max(a % 2, b % 2)

\* a >> k
ShiftRight[a \in Int, k \in Nat] == a \div Pow2(k)

\* v |= v >> k
OrShift[a \in Int, k \in Nat] == BitOr[a, ShiftRight[a, k]]

nextPowerOf2(n) ==
    OrShift[OrShift[OrShift[OrShift[OrShift[n - 1, 1], 2], 4], 8], 16] + 1

-----------------------------------------------------------------------------
(* Inputs *)

\* Hostnames of ingress.Server, as byte sequences ("a", "b.c", "d.e.f").
Hostnames == {<<97>>, <<98, 46, 99>>}
SizingHostnames == Hostnames \cup {<<100, 46, 101, 46, 102>>}

\* Base values ReadConfig returns for the two hash sizing options.
BaseSizes == {2}
SizingBaseSizes == {1, 4, 32}

\* A byte the syntax checker accepts and one it rejects, standing for the
\* free-form options of the ConfigMap that end up in the rendered file.
BadBytes == {33}
Snippets == {59} \cup BadBytes

\* The file found at cfgPath when the controller is constructed.
InitialContent == <<59>>

DesiredStates ==
    [Servers : SeqsUpTo(Hostnames, MaxServers),
     cfg : [ServerNameHashBucketSize : BaseSizes,
            ServerNameHashMaxSize : BaseSizes,
            snippet : Snippets]]

SizingInputs ==
    [Servers : SeqsUpTo(SizingHostnames, MaxSizingServers),
     cfg : [ServerNameHashBucketSize : SizingBaseSizes,
            ServerNameHashMaxSize : SizingBaseSizes,
            snippet : Snippets \ BadBytes]]

\* Outcomes of the external calls made by testTemplate for candidate cfg:
\* TempFile fails; or it succeeds and WriteFile leaves `partial` in the
\* temporary file (cfg itself, or a strict prefix when the write fails); the
\* checker then cannot be executed, or runs on that file.  A call that is not
\* made has no outcome, so its flag is FALSE.
TestEnvs(cfg) ==
    {e \in [tmpFails : BOOLEAN, tmpWriteFails : BOOLEAN, execFails : BOOLEAN,
            partial : Prefixes(cfg) \cup {cfg}] :
        /\ e.tmpWriteFails <=> (e.partial # cfg)
        /\ e.tmpFails => (~e.tmpWriteFails /\ ~e.execFails)}

\* The outcome in which no external call of testTemplate fails.
TestEnvsOk(cfg) ==
    {[tmpFails |-> FALSE, tmpWriteFails |-> FALSE, execFails |-> FALSE,
      partial |-> cfg]}

\* Outcomes of the external calls made by Reload and isReloadRequired, in
\* call order: os.Open, ReadAll, TempFile, WriteFile of the temporary file,
\* diff (an error, or no output at all), WriteFile of cfgPath, the reload
\* command.  A call after the one that ends the function is not made and
\* has no outcome, so its flag is FALSE.
ReloadEnvs ==
    {e \in [openFails : BOOLEAN, readFails : BOOLEAN, tmpFails : BOOLEAN,
            tmpWriteFails : BOOLEAN, diffFails : BOOLEAN,
            diffToolSilent : BOOLEAN, writeFails : BOOLEAN,
            signalFails : BOOLEAN] :
        /\ e.openFails => ~e.readFails
        /\ (e.openFails \/ e.readFails) => ~e.tmpFails
        /\ (e.openFails \/ e.readFails \/ e.tmpFails) => ~e.tmpWriteFails
        /\ (e.openFails \/ e.readFails \/ e.tmpFails \/ e.tmpWriteFails)
              => (~e.diffFails /\ ~e.diffToolSilent /\ ~e.writeFails)
        /\ e.diffFails => ~e.diffToolSilent
        /\ e.diffToolSilent => ~e.writeFails
        /\ (e.openFails \/ e.readFails \/ e.tmpFails \/ e.tmpWriteFails
              \/ e.diffToolSilent \/ e.writeFails) => ~e.signalFails}

\* The environment in which no external call fails.
AllOk ==
    [openFails |-> FALSE, readFails |-> FALSE, tmpFails |-> FALSE,
     tmpWriteFails |-> FALSE, diffFails |-> FALSE, diffToolSilent |-> FALSE,
     writeFails |-> FALSE, signalFails |-> FALSE]

-----------------------------------------------------------------------------
(* OnUpdate, nginx.go:215-257 *)

RECURSIVE SumLen(_)
SumLen(servers) ==
    IF servers = <<>> THEN 0
    ELSE Len(Head(servers)) + SumLen(Tail(servers))

RECURSIVE LongestLen(_, _)
LongestLen(servers, longest) ==
    IF servers = <<>> THEN longest
    ELSE LongestLen(Tail(servers),
                    IF longest < Len(Head(servers)) THEN Len(Head(servers))
                    ELSE longest)

\* nginx.go:216-223: the loop over ingressCfg.Servers.
serverNames(servers) == SumLen(servers)
longestName(servers) == LongestLen(servers, 0)

\* nginx.go:233 and 239: the freshly computed sizes.
nameHashBucketSize(servers) == nextPowerOf2(longestName(servers))
serverNameHashMaxSize(servers) == nextPowerOf2(serverNames(servers))

\* Variant: the computed sizes replace the base values unconditionally.
AdjustCfgOverwrite(cfg, servers) ==
    [cfg EXCEPT !.ServerNameHashBucketSize = nameHashBucketSize(servers),
                !.ServerNameHashMaxSize = serverNameHashMaxSize(servers)]

\* nginx.go:233-244: raise cfg's sizing fields to the computed values.
AdjustCfg(cfg, servers) ==
    [cfg EXCEPT
       !.ServerNameHashBucketSize =
           IF nameHashBucketSize(servers) > cfg.ServerNameHashBucketSize
           THEN nameHashBucketSize(servers)
           ELSE cfg.ServerNameHashBucketSize,
       !.ServerNameHashMaxSize =
           IF serverNameHashMaxSize(servers) > cfg.ServerNameHashMaxSize
           THEN serverNameHashMaxSize(servers)
           ELSE cfg.ServerNameHashMaxSize]

\* nginx.go:246-256: the argument OnUpdate hands to Template.Write.
TemplateConfig(ds) ==
    [Servers |-> ds.Servers, Cfg |-> AdjustCfg(ds.cfg, ds.Servers)]

RECURSIVE Flatten(_)
Flatten(servers) ==
    IF servers = <<>> THEN <<>>
    ELSE Head(servers) \o Flatten(Tail(servers))

\* The template engine: the rendered bytes are a pure function of the
\* TemplateConfig and carry the sizing options, the hostnames and the
\* free-form options.
Render(tc) ==
    <<tc.Cfg.ServerNameHashBucketSize, tc.Cfg.ServerNameHashMaxSize>>
        \o Flatten(tc.Servers) \o <<tc.Cfg.snippet>>

-----------------------------------------------------------------------------
(* testTemplate, nginx.go:184-205 *)

\* "nginx -t -c file" (nginx.go:122-124): TRUE when it exits with status 0.
NginxTest(content) ==
    /\ content # <<>>
    /\ \A i \in 1..Len(content) : content[i] \notin BadBytes

\* Variant: the checker's exit status is not looked at.
testTemplateIgnoreExit(cfg, e) ==
    IF e.tmpFails
    THEN [err |-> "tempfile", ran |-> FALSE, exit0 |-> FALSE,
          tmpLeft |-> FALSE]
    ELSE [err |-> "nil", ran |-> TRUE,
          exit0 |-> ~e.execFails /\ NginxTest(e.partial),
          tmpLeft |-> FALSE]

\* Variant: a failed TempFile is reported with the checker's banner.
testTemplateBannerOnTempFile(cfg, e) ==
    IF e.tmpFails \/ ~(~e.execFails /\ NginxTest(e.partial))
    THEN [err |-> "invalid", ran |-> ~e.tmpFails, exit0 |-> FALSE,
          tmpLeft |-> ~e.tmpFails]
    ELSE [err |-> "nil", ran |-> TRUE, exit0 |-> TRUE, tmpLeft |-> FALSE]

\* err: "nil", "tempfile" (TempFile failed, line 187) or "invalid" (the
\* banner error, line 200); ran: the checker was invoked; exit0: it exited
\* 0; tmpLeft: the temporary file is still on disk when the call returns
\* (os.Remove, line 203, is reached only on the nil path).
testTemplate(cfg, e) ==
    IF e.tmpFails
    THEN [err |-> "tempfile", ran |-> FALSE, exit0 |-> FALSE,
          tmpLeft |-> FALSE]
    \* line 190 drops WriteFile's error: the checker runs on e.partial
    ELSE IF ~(~e.execFails /\ NginxTest(e.partial))
         THEN [err |-> "invalid", ran |-> TRUE, exit0 |-> FALSE,
               tmpLeft |-> TRUE]
         ELSE [err |-> "nil", ran |-> TRUE, exit0 |-> TRUE,
               tmpLeft |-> FALSE]

\* Template.Write(conf, isValidTemplate): renders conf, hands the bytes to
\* the callback (testTemplate, none of its external calls failing when ok)
\* and returns them only when the callback returns nil.
\* data: the rendered bytes; test: the callback's result; out: the bytes
\* returned, <<>> with an error; tmpFailed, tmpWriteFailed, execFailed:
\* which external calls of the callback failed.
Write(tc, ok) ==
    UNION {{[data |-> content,
             test |-> testTemplate(content, e),
             tmpFailed |-> e.tmpFails,
             tmpWriteFailed |-> e.tmpWriteFails,
             execFailed |-> e.execFails,
             out |-> IF testTemplate(content, e).err = "nil"
                     THEN <<content>> ELSE <<>>] :
               e \in IF ok THEN TestEnvsOk(content)
                           ELSE TestEnvs(content)} :
           content \in {Render(tc)}}

\* What one call of OnUpdate can return for desired state ds (line 246).
OnUpdateResults(ds, ok) == Write(TemplateConfig(ds), ok)

-----------------------------------------------------------------------------
(* isReloadRequired, nginx.go:134-170 *)

\* diff(src, data), defined outside nginx.go: the output of the diff tool,
\* empty when the inputs are equal or the tool printed nothing.
diff(src, data, e) ==
    IF src = data \/ e.diffToolSilent THEN <<>> ELSE src \o data

\* os.Open and ReadAll of cfgPath both succeed (lines 135-143).
Readable(file, e) == file.exists /\ ~e.openFails /\ ~e.readFails

\* The temporary file "nginx-cfg-diff" is on disk when isReloadRequired
\* returns: TempFile created it on the differing path (lines 145-146) and
\* the only clean-up is the deferred Close (line 151).
diffTmpLeft(file, data, e) ==
    Readable(file, e) /\ file.data # data /\ ~e.tmpFails

\* Variant: every candidate is reloaded.
isReloadRequiredAlways(file, data, e) == TRUE

\* Variant: a failing diff means that no reload is required.
isReloadRequiredDiffErrFalse(file, data, e) ==
    IF ~Readable(file, e) THEN FALSE
    ELSE IF file.data # data
         THEN IF e.tmpFails \/ e.tmpWriteFails \/ e.diffFails THEN FALSE
              ELSE Len(diff(file.data, data, e)) > 0
         ELSE FALSE

isReloadRequired(file, data, e) ==
    IF ~file.exists \/ e.openFails THEN FALSE          \* lines 135-138
    ELSE IF e.readFails THEN FALSE                     \* lines 139-143
    ELSE IF file.data # data                           \* line 145
         THEN IF e.tmpFails THEN FALSE                 \* lines 146-150
              ELSE IF e.tmpWriteFails THEN FALSE       \* lines 152-155
              ELSE IF e.diffFails THEN TRUE            \* lines 157-161
              ELSE Len(diff(file.data, data, e)) > 0   \* line 167
         ELSE FALSE                                    \* line 169

-----------------------------------------------------------------------------
(* Reload, nginx.go:108-119 *)

\* Variant: a failed reload command restores the previous file.
ReloadRollsBack(file, data, e) ==
    IF ~isReloadRequired(file, data, e)
    THEN [required |-> FALSE, err |-> "notRequired", file |-> file,
          wrote |-> FALSE, signalled |-> FALSE]
    ELSE IF e.writeFails
    THEN [required |-> TRUE, err |-> "write", file |-> file,
          wrote |-> FALSE, signalled |-> FALSE]
    ELSE [required |-> TRUE,
          err |-> IF e.signalFails THEN "signal" ELSE "nil",
          file |-> IF e.signalFails THEN file ELSE FileOf(data),
          wrote |-> TRUE, signalled |-> TRUE]

\* Variant: the reload command is run whether or not WriteFile succeeded.
ReloadSignalsAnyway(file, data, e) ==
    IF ~isReloadRequired(file, data, e)
    THEN [required |-> FALSE, err |-> "notRequired", file |-> file,
          wrote |-> FALSE, signalled |-> FALSE]
    ELSE [required |-> TRUE,
          err |-> IF e.writeFails THEN "write"
                  ELSE IF e.signalFails THEN "signal" ELSE "nil",
          file |-> IF e.writeFails THEN file ELSE FileOf(data),
          wrote |-> ~e.writeFails, signalled |-> TRUE]

\* err is the error Reload returns: "nil", "notRequired" (line 110),
\* "write" (line 115) or "signal" (the error of CombinedOutput, line 118);
\* file is cfgPath after the call; wrote: WriteFile succeeded; signalled:
\* the reload command was run.
Reload(file, data, e) ==
    IF ~isReloadRequired(file, data, e)
    THEN [required |-> FALSE, err |-> "notRequired", file |-> file,
          wrote |-> FALSE, signalled |-> FALSE]
    ELSE IF e.writeFails
    THEN [required |-> TRUE, err |-> "write", file |-> file,
          wrote |-> FALSE, signalled |-> FALSE]
    ELSE [required |-> TRUE,
          err |-> IF e.signalFails THEN "signal" ELSE "nil",
          file |-> FileOf(data),
          wrote |-> TRUE, signalled |-> TRUE]

-----------------------------------------------------------------------------
(* newNGINXController and onChange, nginx.go:49-83.  A template is named by *)
(* a number: 0 is the one loaded on line 74, k > 0 the one returned by the  *)
(* k-th call of NewTemplate that onChange makes.                            *)

\* The state on return from newNGINXController.  nT is n.t of the variable
\* n that onChange captures (assigned on line 79); ctrlT is the field t of
\* the controller handed to the caller: `return n` (line 82) stores a copy
\* of the struct n in the returned interface value, and the methods have
\* value receivers.  closed: the templates whose Close was called; pc:
\* the position of a running onChange ("idle" when none runs); newT: the
\* local variable template; loads: calls of NewTemplate made by onChange;
\* lastLoad: how the last one ended; used: what the last OnUpdate read.
newTemplates ==
    [nT |-> 0, ctrlT |-> 0, closed |-> {}, pc |-> "idle", newT |-> 0,
     loads |-> 0, lastLoad |-> "none", used |-> <<>>]

\* Variant: onChange closes the current template before loading the new one.
onChangeCloseFirst(t, ok) ==
    IF ok
    THEN [t EXCEPT !.loads = t.loads + 1, !.lastLoad = "ok",
                   !.newT = t.loads + 1, !.pc = "loaded"]
    ELSE [t EXCEPT !.loads = t.loads + 1, !.lastLoad = "failed",
                   !.closed = t.closed \cup {t.nT}]

\* Lines 58-67: onChange calls NewTemplate; on an error it logs and returns.
onChangeLoad(t, ok) ==
    IF ok
    THEN [t EXCEPT !.loads = t.loads + 1, !.lastLoad = "ok",
                   !.newT = t.loads + 1, !.pc = "loaded"]
    ELSE [t EXCEPT !.loads = t.loads + 1, !.lastLoad = "failed"]

\* Line 69: n.t.Close(), on the variable n of the closure.
onChangeClose(t) ==
    [t EXCEPT !.closed = t.closed \cup {t.nT}, !.pc = "closed"]

\* Line 70: n.t = template, on the variable n of the closure.
onChangeAssign(t) == [t EXCEPT !.nT = t.newT, !.pc = "idle"]

\* Line 246: OnUpdate reads n.t of its receiver, the returned controller.
\* t: the template it renders with; published: the template onChange
\* assigned last; closed: t was closed already; swapping: an onChange is
\* under way; loads: the calls of NewTemplate made so far.
readT(t) ==
    [t EXCEPT !.used = <<[t |-> t.ctrlT, published |-> t.nT,
                          closed |-> t.ctrlT \in t.closed,
                          swapping |-> t.pc # "idle",
                          loads |-> t.loads]>>]

-----------------------------------------------------------------------------
(* Start, nginx.go:93-104, run once as a goroutine (line 80) *)

\* state: "starting" (the goroutine has not reached cmd.Start yet),
\* "running", "exited" (cmd.Wait has returned) or "fatal" (glog.Fatalf has
\* ended the controller); attempts: calls of cmd.Start; exitErr: cmd.Wait
\* returned an error; reported: the exit was logged.
newProcess ==
    [state |-> "starting", attempts |-> 0, exitErr |-> FALSE,
     reported |-> FALSE]

\* Lines 96-98: cmd.Start; its error is fatal.
cmdStart(p, fails) ==
    [p EXCEPT !.attempts = p.attempts + 1,
              !.state = IF fails THEN "fatal" ELSE "running"]

\* Variant: Start runs nginx again whenever it has exited.
cmdWaitRestarts(p, err) ==
    [p EXCEPT !.state = "starting", !.exitErr = err, !.reported = err]

\* Lines 99-102: cmd.Wait returns when nginx has exited; its error (a
\* non-zero exit status among others) is logged, and Start returns.
cmdWait(p, err) ==
    [p EXCEPT !.state = "exited", !.exitErr = err, !.reported = err]

\* glog.Fatalf (line 97) has not ended the controller.
Alive == proc.state # "fatal"

-----------------------------------------------------------------------------
(* State machine of the synchronization cycle *)

NoCycle ==
    [op |-> "init", data |-> <<>>, preDiffers |-> FALSE,
     testErr |-> "nil", ran |-> FALSE, exit0 |-> FALSE,
     readable |-> FALSE, required |-> FALSE, err |-> "nil",
     wrote |-> FALSE, signalled |-> FALSE, sigFailed |-> FALSE,
     allOk |-> FALSE, wasSynced |-> FALSE,
     tmpFailed |-> FALSE, tmpWriteFailed |-> FALSE, execFailed |-> FALSE,
     testTmpLeft |-> FALSE, diffFailed |-> FALSE, writeFailed |-> FALSE,
     diffTmpLeft |-> FALSE, decided |-> FALSE]

Init ==
    /\ cfgFile \in {NoFile, FileOf(InitialContent)}
    /\ pc = "idle"
    /\ desired = [Servers |-> <<>>,
                  cfg |-> [ServerNameHashBucketSize |-> 2,
                           ServerNameHashMaxSize |-> 2,
                           snippet |-> 59]]
    /\ pending = <<>>
    /\ last = NoCycle
    /\ synced = <<>>
    /\ stale = FALSE
    /\ nWrites = 0
    /\ nSignals = 0
    /\ v = 0
    /\ sizingIn = desired
    /\ sizingOut = <<>>
    /\ tmpl = newTemplates
    /\ proc = newProcess

\* One call of OnUpdate by the sync loop for desired state ds.  An error
\* returned by OnUpdate requeues the update (nginx.go:213-214): the loop
\* calls Reload only with bytes that OnUpdate returned without an error.
OnUpdate(ds, ok) ==
    /\ pc = "idle"
    /\ Alive
    /\ tmpl' = readT(tmpl)
    /\ \E o \in OnUpdateResults(ds, ok) :
          /\ desired' = ds
          /\ pending' = o.out
          /\ pc' = IF o.out # <<>> THEN "reload" ELSE "idle"
          /\ last' = [NoCycle EXCEPT
                        !.op = "OnUpdate", !.data = o.data,
                        !.preDiffers = (cfgFile.exists
                                          /\ cfgFile.data # o.data),
                        !.testErr = o.test.err, !.ran = o.test.ran,
                        !.exit0 = o.test.exit0,
                        !.tmpFailed = o.tmpFailed,
                        !.tmpWriteFailed = o.tmpWriteFailed,
                        !.execFailed = o.execFailed,
                        !.testTmpLeft = o.test.tmpLeft]
          /\ synced' = IF synced = <<o.data>> THEN synced ELSE <<>>
    /\ UNCHANGED <<cfgFile, stale, nWrites, nSignals, v, sizingIn, sizingOut,
                   proc>>

\* One call of Reload with the bytes OnUpdate returned, the external calls
\* behaving as one of envs.
ReloadWith(envs) ==
    /\ pc = "reload"
    /\ Alive
    /\ \E data \in {pending[1]} :
       \E o \in {[r |-> Reload(cfgFile, data, e),
                  readable |-> Readable(cfgFile, e),
                  sigFailed |-> e.signalFails,
                  diffFailed |-> e.diffFails,
                  writeFailed |-> e.writeFails,
                  diffTmpLeft |-> diffTmpLeft(cfgFile, data, e),
                  decided |-> ~(e.openFails \/ e.readFails \/ e.tmpFails
                                  \/ e.tmpWriteFails \/ e.diffFails),
                  allOk |-> (e = AllOk)] : e \in envs} :
          /\ cfgFile' = o.r.file
          /\ nWrites' = IF o.r.wrote THEN nWrites + 1 ELSE nWrites
          /\ nSignals' = IF o.r.signalled THEN nSignals + 1 ELSE nSignals
          /\ stale' = IF o.r.wrote /\ o.r.err = "signal" THEN TRUE
                      ELSE IF o.r.signalled /\ o.r.err = "nil" THEN FALSE
                      ELSE stale
          /\ synced' = IF o.r.wrote /\ o.r.err = "nil" THEN <<data>>
                       ELSE IF o.r.wrote THEN <<>>
                       ELSE synced
          /\ last' = [last EXCEPT
                        !.op = "Reload", !.readable = o.readable,
                        !.required = o.r.required, !.err = o.r.err,
                        !.wrote = o.r.wrote, !.signalled = o.r.signalled,
                        !.sigFailed = o.sigFailed, !.allOk = o.allOk,
                        !.wasSynced = (synced = <<data>>),
                        !.diffFailed = o.diffFailed,
                        !.writeFailed = o.writeFailed,
                        !.diffTmpLeft = o.diffTmpLeft,
                        !.decided = o.decided]
    /\ pc' = "idle"
    /\ pending' = <<>>
    /\ UNCHANGED <<desired, v, sizingIn, sizingOut, tmpl, proc>>

Cycle ==
    /\ nWrites < MaxWrites
    /\ \E ds \in DesiredStates : OnUpdate(ds, FALSE)

Commit == ReloadWith(ReloadEnvs)

Next == Cycle \/ Commit

Spec == Init /\ [][Next]_vars

-----------------------------------------------------------------------------
(* The sync loop retrying after a failed reload signal: from the moment a   *)
(* persisted candidate waits for its signal, the loop calls OnUpdate with   *)
(* the same desired state on every tick and no external call fails any     *)
(* more.  The loop keeps ticking, hence the weak fairness.                  *)

RetryCycle ==
    IF stale
    THEN OnUpdate(desired, TRUE)
    ELSE /\ nWrites < MaxWrites
         /\ \E ds \in DesiredStates : OnUpdate(ds, FALSE)

RetryCommit == ReloadWith(IF stale THEN {AllOk} ELSE ReloadEnvs)

RetryNext == RetryCycle \/ RetryCommit

FairRetrySpec ==
    Init /\ [][RetryNext]_vars /\ WF_vars(RetryCycle) /\ WF_vars(RetryCommit)

-----------------------------------------------------------------------------
(* The whole controller: the sync loop running cycles for one desired       *)
(* state, template changes delivered to onChange by the file watcher, and   *)
(* the goroutine running nginx.  onChange runs on the watcher's goroutine,  *)
(* Start on its own, so their statements interleave with the cycle's.       *)

TemplateChanged ==
    /\ Alive
    /\ tmpl.pc = "idle"
    /\ tmpl.loads < MaxLoads
    /\ \E ok \in BOOLEAN : tmpl' = onChangeLoad(tmpl, ok)
    /\ UNCHANGED <<cfgFile, pc, desired, pending, last, synced, stale,
                   nWrites, nSignals, v, sizingIn, sizingOut, proc>>

CloseOld ==
    /\ Alive
    /\ tmpl.pc = "loaded"
    /\ tmpl' = onChangeClose(tmpl)
    /\ UNCHANGED <<cfgFile, pc, desired, pending, last, synced, stale,
                   nWrites, nSignals, v, sizingIn, sizingOut, proc>>

AssignNew ==
    /\ Alive
    /\ tmpl.pc = "closed"
    /\ tmpl' = onChangeAssign(tmpl)
    /\ UNCHANGED <<cfgFile, pc, desired, pending, last, synced, stale,
                   nWrites, nSignals, v, sizingIn, sizingOut, proc>>

Start ==
    /\ Alive
    /\ proc.state = "starting"
    /\ proc.attempts < MaxStarts
    /\ \E fails \in BOOLEAN : proc' = cmdStart(proc, fails)
    /\ UNCHANGED <<cfgFile, pc, desired, pending, last, synced, stale,
                   nWrites, nSignals, v, sizingIn, sizingOut, tmpl>>

Exited ==
    /\ Alive
    /\ proc.state = "running"
    /\ \E err \in BOOLEAN : proc' = cmdWait(proc, err)
    /\ UNCHANGED <<cfgFile, pc, desired, pending, last, synced, stale,
                   nWrites, nSignals, v, sizingIn, sizingOut, tmpl>>

ControllerCycle ==
    /\ nWrites < MaxWrites
    /\ OnUpdate(desired, TRUE)

ControllerCommit == ReloadWith(ReloadEnvs)

ControllerNext ==
    \/ ControllerCycle
    \/ ControllerCommit
    \/ TemplateChanged
    \/ CloseOld
    \/ AssignNew
    \/ Start
    \/ Exited

ControllerSpec == Init /\ [][ControllerNext]_vars

-----------------------------------------------------------------------------
(* The sizing code on its own: nextPowerOf2 applied to v, and the sizing    *)
(* part of OnUpdate (nginx.go:216-244) applied to sizingIn.                 *)

SizingInit ==
    /\ cfgFile = FileOf(InitialContent)
    /\ pc = "idle"
    /\ desired = [Servers |-> <<>>,
                  cfg |-> [ServerNameHashBucketSize |-> 2,
                           ServerNameHashMaxSize |-> 2,
                           snippet |-> 59]]
    /\ pending = <<>>
    /\ last = NoCycle
    /\ synced = <<>>
    /\ stale = FALSE
    /\ nWrites = 0
    /\ nSignals = 0
    /\ v \in (0 - MaxNegV)..MaxV
    /\ sizingIn \in SizingInputs
    /\ sizingOut = <<>>
    /\ tmpl = newTemplates
    /\ proc = newProcess

ComputeSizing ==
    /\ sizingOut = <<>>
    /\ sizingOut' = <<[pow |-> nextPowerOf2(v),
                       bucket |-> nameHashBucketSize(sizingIn.Servers),
                       maxSize |-> serverNameHashMaxSize(sizingIn.Servers),
                       cfg |-> TemplateConfig(sizingIn).Cfg]>>
    /\ UNCHANGED <<cfgFile, pc, desired, pending, last, synced, stale,
                   nWrites, nSignals, v, sizingIn, tmpl, proc>>

SizingNext == ComputeSizing

SizingSpec == SizingInit /\ [][SizingNext]_vars

-----------------------------------------------------------------------------
(* Properties *)

\* The bytes handed to Reload in the step being taken.
Candidate == pending[1]

C2_Idempotent ==
    [][pc = "reload" =>
         /\ (last'.allOk /\ cfgFile.exists /\ cfgFile.data # Candidate) =>
               /\ nWrites' = nWrites + 1
               /\ nSignals' = nSignals + 1
               /\ cfgFile' = FileOf(Candidate)
               /\ synced' = <<Candidate>>
         /\ synced = <<Candidate>> =>
               /\ nWrites' = nWrites
               /\ nSignals' = nSignals
               /\ cfgFile' = cfgFile]_vars

\* A cycle with the bytes of the preceding successful cycle has run.
C2_Witness ==
    /\ last.op = "Reload" /\ last.wasSynced
    /\ nWrites > 0 /\ nSignals > 0
    /\ cfgFile = FileOf(last.data)

\* C3: when cfgPath could not be opened or read, Reload finds a reload
\* required and, unless the write of cfgPath itself fails, persists the
\* candidate and runs the reload command.
C3_UnreadableMeansReload ==
    (last.op = "Reload" /\ ~last.readable) =>
        /\ last.required
        /\ last.err # "write" =>
              last.wrote /\ last.signalled /\ cfgFile = FileOf(last.data)

\* C4: with cfgPath readable, isReloadRequired is true exactly when the
\* candidate differs from the committed bytes.
C4_RequiredIffDiffers ==
    (last.op = "Reload" /\ last.readable) =>
        (last.required <=> last.preDiffers)

\* C5: when the candidate equals the readable committed bytes, no reload is
\* required and Reload returns no error, writes nothing, signals nothing.
C5_NotRequiredIsSuccess ==
    (last.op = "Reload" /\ last.readable /\ ~last.preDiffers) =>
        /\ ~last.required
        /\ last.err = "nil"
        /\ ~last.wrote /\ ~last.signalled

\* C6: when Reload has written the candidate to cfgPath and the reload
\* command fails, Reload returns that error and cfgPath holds the candidate.
C6_SignalFailureKeepsFile ==
    (last.op = "Reload" /\ last.wrote /\ last.sigFailed) =>
        /\ last.err = "signal"
        /\ cfgFile = FileOf(last.data)

\* A Reload has replaced different committed bytes and its signal failed.
C6_Witness ==
    /\ last.op = "Reload" /\ last.wrote /\ last.sigFailed
    /\ last.preDiffers

\* C7: once a persisted candidate that the checker accepts waits for its
\* reload signal, retrying the cycle with the same desired state while the
\* reload command can succeed eventually gets the committed file loaded by
\* nginx.
C7_EventuallyReloaded == (stale /\ NginxTest(cfgFile.data)) ~> ~stale

\* The smallest power of two that is >= n; 1 for every n <= 1.
SmallestPowerOf2AtLeast(n) ==
    CHOOSE p \in {Pow2(k) : k \in 0..8} :
        /\ p >= n
        /\ \A q \in {Pow2(k) : k \in 0..8} : q >= n => p <= q

\* The byte length of the longest hostname, 0 for no server.
LongestHostname(servers) ==
    IF servers = <<>> THEN 0
    ELSE CHOOSE m \in {Len(servers[i]) : i \in 1..Len(servers)} :
            \A i \in 1..Len(servers) : Len(servers[i]) <= m

\* C8: nextPowerOf2(v) is the smallest power of two >= v, and 1 for v <= 1.
C8_NextPowerOf2 ==
    sizingOut # <<>> => sizingOut[1].pow = SmallestPowerOf2AtLeast(v)

\* C9: the computed sizes are the smallest powers of two >= the longest
\* hostname's byte length and >= the sum of the hostnames' byte lengths;
\* both are 1 for no server.
C9_ComputedSizing ==
    sizingOut # <<>> =>
        /\ sizingOut[1].bucket =
              SmallestPowerOf2AtLeast(LongestHostname(sizingIn.Servers))
        /\ sizingOut[1].maxSize =
              SmallestPowerOf2AtLeast(Len(Flatten(sizingIn.Servers)))
        /\ sizingIn.Servers = <<>> =>
              sizingOut[1].bucket = 1 /\ sizingOut[1].maxSize = 1

\* C10: each sizing field handed to the renderer is the maximum of the base
\* value and the computed value, hence never below the base value.
C10_FloorRaise ==
    sizingOut # <<>> =>
        /\ sizingOut[1].cfg.ServerNameHashBucketSize =
              Max(sizingIn.cfg.ServerNameHashBucketSize, sizingOut[1].bucket)
        /\ sizingOut[1].cfg.ServerNameHashMaxSize =
              Max(sizingIn.cfg.ServerNameHashMaxSize, sizingOut[1].maxSize)
        /\ sizingOut[1].cfg.ServerNameHashBucketSize >=
              sizingIn.cfg.ServerNameHashBucketSize
        /\ sizingOut[1].cfg.ServerNameHashMaxSize >=
              sizingIn.cfg.ServerNameHashMaxSize

\* The base value of one field is above the computed value and the base
\* value of the other is below it.
C10_Witness ==
    /\ sizingOut # <<>>
    /\ sizingIn.cfg.ServerNameHashBucketSize > sizingOut[1].bucket
    /\ sizingIn.cfg.ServerNameHashMaxSize < sizingOut[1].maxSize
    /\ sizingOut[1].bucket > 1

\* C13: when testTemplate has invoked the checker and the checker could be
\* executed, it returns nil exactly when the checker accepts the candidate
\* bytes and the "invalid" error exactly when the checker rejects them, also
\* when the write of the candidate to the temporary file failed.
C13_VerdictOnCandidate ==
    (last.op = "OnUpdate" /\ last.ran /\ ~last.execFailed) =>
        /\ (last.testErr = "nil") <=> NginxTest(last.data)
        /\ (last.testErr = "invalid") <=> ~NginxTest(last.data)

\* C14: the reload command runs only in a Reload call that has just written
\* the candidate to cfgPath, the number of reload commands never exceeds the
\* number of successful writes, and a Reload whose write of cfgPath fails
\* returns the write error without running the reload command.
C14_SignalOnlyAfterWrite ==
    [][/\ nSignals' # nSignals =>
            /\ pc = "reload"
            /\ nSignals' = nSignals + 1
            /\ nWrites' = nWrites + 1
            /\ cfgFile' = FileOf(Candidate)
       /\ nSignals' <= nWrites'
       /\ (pc = "reload" /\ last'.required /\ last'.writeFailed) =>
            /\ last'.err = "write"
            /\ nSignals' = nSignals
            /\ cfgFile' = cfgFile]_vars

\* A write of cfgPath has failed after an earlier cycle was signalled.
C14_Witness ==
    /\ last.op = "Reload" /\ last.required /\ last.writeFailed
    /\ last.err = "write"
    /\ nSignals > 0

\* C15: when the candidate differs from the readable committed bytes and
\* the diff fails, isReloadRequired returns true: Reload goes on to write
\* cfgPath and, the write succeeding, runs the reload command.
C15_DiffErrorMeansReload ==
    (last.op = "Reload" /\ last.readable /\ last.preDiffers
        /\ last.diffFailed) =>
        /\ last.required
        /\ last.err # "notRequired"
        /\ ~last.writeFailed =>
              last.wrote /\ last.signalled /\ cfgFile = FileOf(last.data)

\* A diff has failed on differing bytes and the candidate was committed.
C15_Witness ==
    /\ last.op = "Reload" /\ last.readable /\ last.preDiffers
    /\ last.diffFailed
    /\ last.wrote /\ cfgFile = FileOf(last.data)

\* C17: an OnUpdate in which testTemplate cannot create its temporary file
\* returns TempFile's own error, not the "invalid" banner error, does not
\* invoke the checker, and leaves cfgPath alone: nothing is written or
\* signalled and no Reload follows.
C17_TempFileErrorIsDistinct ==
    [][(pc = "idle" /\ last'.op = "OnUpdate" /\ last'.tmpFailed) =>
          /\ last'.testErr = "tempfile"
          /\ ~last'.ran
          /\ pc' = "idle"
          /\ cfgFile' = cfgFile
          /\ nWrites' = nWrites
          /\ nSignals' = nSignals]_vars

\* TempFile has failed in a validation that followed a commit.
C17_Witness ==
    /\ last.op = "OnUpdate" /\ last.tmpFailed /\ last.testErr = "tempfile"
    /\ nWrites > 0

\* C19: an OnUpdate whose validation passes leaves no temporary file, and
\* neither does the Reload that follows it once isReloadRequired has run
\* to its end without an error.
C19_NoTempFileLeft ==
    /\ (last.op = "OnUpdate" /\ last.testErr = "nil") => ~last.testTmpLeft
    /\ (last.op = "Reload" /\ last.decided) =>
          ~last.testTmpLeft /\ ~last.diffTmpLeft

\* C11: a call of NewTemplate by onChange that fails changes neither the
\* template of the closure nor the one of the returned controller, closes
\* no template and ends onChange; every OnUpdate renders with the template
\* its controller held before, so also every OnUpdate after the failure.
C11_FailedLoadKeepsRenderer ==
    [][/\ (tmpl'.loads = tmpl.loads + 1 /\ tmpl'.lastLoad = "failed") =>
            /\ tmpl'.nT = tmpl.nT
            /\ tmpl'.ctrlT = tmpl.ctrlT
            /\ tmpl'.closed = tmpl.closed
            /\ tmpl'.pc = "idle"
       /\ tmpl'.used # tmpl.used => tmpl'.used[1].t = tmpl.ctrlT]_vars

\* An OnUpdate has rendered after a failed load that followed a
\* successful one.
C11_Witness ==
    /\ tmpl.lastLoad = "failed" /\ tmpl.loads >= 2
    /\ tmpl.nT # 0
    /\ tmpl.used # <<>> /\ tmpl.used[1].loads = tmpl.loads

\* C12: an OnUpdate that starts while no onChange is under way renders with
\* the template that onChange assigned last (the initial one before any
\* assignment), and that template has not been closed.
C12_RendersWithNewTemplate ==
    (tmpl.used # <<>> /\ ~tmpl.used[1].swapping) =>
        /\ tmpl.used[1].t = tmpl.used[1].published
        /\ ~tmpl.used[1].closed

\* C16: at every point of every interleaving of onChange with the cycles,
\* the template a cycle can read is open: neither n.t of the closure nor
\* the template of the returned controller has been closed, and no OnUpdate
\* has rendered with a closed template.
C16_AtomicReplacement ==
    /\ tmpl.nT \notin tmpl.closed
    /\ tmpl.ctrlT \notin tmpl.closed
    /\ tmpl.used # <<>> => ~tmpl.used[1].closed

\* C18 as first stated: cmd.Start is called at most once, a failed call
\* ends the controller, and once nginx has exited the exit has been logged
\* and nothing is started again.
C18_ExitAlwaysReported ==
    [][/\ proc'.attempts <= 1
       /\ proc.state # "fatal"
       /\ proc.state = "exited" => proc' = proc
       /\ proc'.state = "exited" => proc'.reported]_vars

\* C18: cmd.Start is called at most once over the controller's lifetime; a
\* failed call ends the controller, no step follows it; once nginx has
\* exited nothing is started again, whatever cycles, reloads and template
\* changes follow, and the exit has been logged exactly when cmd.Wait
\* returned an error.
C18_StartsAtMostOnce ==
    [][/\ proc'.attempts <= 1
       /\ proc.state # "fatal"
       /\ proc.state = "exited" => proc' = proc
       /\ proc'.state = "exited" =>
             (proc'.reported <=> proc'.exitErr)]_vars

\* nginx has exited with an error, and a commit and a template change have
\* happened.
C18_Witness ==
    /\ proc.state = "exited" /\ proc.exitErr /\ proc.reported
    /\ proc.attempts = 1
    /\ nWrites > 0 /\ nSignals > 0
    /\ tmpl.loads > 0

====
